---- MODULE Spec2Model ----
(***************************************************************************)
(* check_logs.py: a pre-commit guard.  One run lists the staged files,     *)
(* blocks the commit when a protected path is staged, and then either      *)
(* scans the added lines of each staged diff for debug statements (scan    *)
(* mode) or strips debug lines from the working files and re-stages them   *)
(* (--fix).                                                                *)
(*                                                                         *)
(* Text is modelled as a sequence of tokens.  A token is a short piece of  *)
(* text ("console.log", "(", " ", ...); NL is the line terminator and BAD  *)
(* a byte that is not valid UTF-8.  The regular expressions of the script  *)
(* are evaluated on token sequences exactly as `re` evaluates them on the  *)
(* concatenated characters.  A path is the token sequence of its text.     *)
(***************************************************************************)
EXTENDS Integers, Sequences, FiniteSets, TLC

\* ------------------------------------------------------------------ bounds
\* Most lines in a working-tree file of the explored trees.
MaxLines == 2
\* Most lines in the output of one `git diff --cached <file>`.
MaxDiffLines == 2

\* ------------------------------------------------------------------ tokens
NL == "\n"
BAD == "0xE9"
SP == " "

\* re.IGNORECASE: the one upper-case spelling among the tokens folds to lower case.
Fold(t) == IF t = "PRINT" THEN "print" ELSE t

\* \w at the first / last character of a token.
WordTokens == {"x", "console.log", "print", "System.out.println", "echo", "log", "b/x"}
WordEnd(t) == Fold(t) \in WordTokens

Range(s) == {s[k] : k \in 1..Len(s)}

\* \b in front of position k of line s (position k starts with a word character).
Boundary(s, k) == k = 1 \/ ~WordEnd(s[k - 1])

\* \s*\( right after position k: optional blanks, then an opening parenthesis.
BlanksThenParen(s, k) ==
    \E j \in (k + 1)..Len(s) :
        /\ s[j] = "("
        /\ \A m \in (k + 1)..(j - 1) : s[m] = SP

\* \s+ right after position k.
BlankAfter(s, k) == k + 1 <= Len(s) /\ s[k + 1] = SP

\* LOG_PATTERNS joined by '|', re.IGNORECASE, pattern.search(line): every
\* alternative is anchored by ^\+ and then matches anywhere behind it (.*).
pattern_search(line) ==
    /\ Len(line) >= 1
    /\ line[1] = "+"
    /\ \E k \in 2..Len(line) :
          \/ Fold(line[k]) = "console.log"
          \/ Fold(line[k]) = "print" /\ Boundary(line, k) /\ BlanksThenParen(line, k)
          \/ Fold(line[k]) = "System.out.println"
          \/ Fold(line[k]) = "echo" /\ Boundary(line, k) /\ BlankAfter(line, k)
          \/ /\ Fold(line[k]) = "log"
             /\ Boundary(line, k)
             /\ Fold(line[k - 1]) # "logger."
             /\ BlanksThenParen(line, k)

\* Index of the first token of line s that is not a blank (Len(s)+1 if none).
RECURSIVE FirstNonBlank(_, _)
FirstNonBlank(s, k) ==
    IF k > Len(s) THEN k
    ELSE IF s[k] = SP THEN FirstNonBlank(s, k + 1) ELSE k

\* any(p.match(line) for p in fix_patterns): FIX_PATTERNS, re.IGNORECASE, each
\* anchored at the start of the line behind optional blanks.  The look-behind
\* of the last pattern sees only blanks and never rejects.
fix_match(line) ==
    LET k == FirstNonBlank(line, 1) IN
    /\ k <= Len(line)
    /\ \/ Fold(line[k]) = "console.log"
       \/ Fold(line[k]) = "print" /\ BlanksThenParen(line, k)
       \/ Fold(line[k]) = "System.out.println"
       \/ Fold(line[k]) = "echo" /\ BlankAfter(line, k)
       \/ Fold(line[k]) = "log" /\ BlanksThenParen(line, k)

\* ----------------------------------------------------------- text <-> lines
\* str.splitlines(): cut at every NL; a final NL ends the last line and does
\* not open an empty one.
RECURSIVE SplitAt(_, _, _)
SplitAt(text, k, cur) ==
    IF k > Len(text) THEN (IF cur = <<>> /\ k > 1 /\ text[k - 1] = NL THEN <<>> ELSE <<cur>>)
    ELSE IF text[k] = NL THEN <<cur>> \o SplitAt(text, k + 1, <<>>)
    ELSE SplitAt(text, k + 1, Append(cur, text[k]))

splitlines(text) == IF text = <<>> THEN <<>> ELSE SplitAt(text, 1, <<>>)

\* '\n'.join(lines)
RECURSIVE join(_)
join(lines) ==
    IF lines = <<>> THEN <<>>
    ELSE IF Len(lines) = 1 THEN lines[1]
    ELSE lines[1] \o <<NL>> \o join(Tail(lines))

\* ------------------------------------------------------------------- paths
\* PROTECTED_PATHS: 'src/config/' and 'src/env/'.
PROTECTED_PATHS == << <<"src", "/", "config", "/">>, <<"src", "/", "env", "/">> >>

\* str.startswith(prefix)
startswith(file, prefix) ==
    /\ Len(file) >= Len(prefix)
    /\ SubSeq(file, 1, Len(prefix)) = prefix

\* A guard that knows only the first protected prefix.
is_protected_first_prefix(file) == startswith(file, PROTECTED_PATHS[1])

is_protected(file) ==
    \E k \in 1..Len(PROTECTED_PATHS) : startswith(file, PROTECTED_PATHS[k])

\* The paths of the explored repositories, in the order git prints them:
\* app.js, src/config/settings.yaml, src/configs.py, src/env/prod.env.
AppJs == <<"app.js">>
Settings == <<"src", "/", "config", "/", "settings.yaml">>
ConfigsPy == <<"src", "/", "configs.py">>
ProdEnv == <<"src", "/", "env", "/", "prod.env">>
Paths == <<AppJs, Settings, ConfigsPy, ProdEnv>>
Files == Range(Paths)

\* ---------------------------------------------------------- explored inputs
SeqsUpTo(S, n) == UNION {[1..m -> S] : m \in 0..n}

\* Lines a working-tree file is made of.
FileLineSamples ==
    { <<SP, "console.log", "(">>,
      <<"logger.", "log", "(">>,
      <<"x", ";", "PRINT", "(">>,
      <<"log", SP, "(", BAD>>,
      <<>> }

FileTexts ==
    {join(ls) \o tail : ls \in SeqsUpTo(FileLineSamples, MaxLines), tail \in {<<>>, <<NL>>}}

Missing == [kind |-> "missing", text |-> <<>>]
Directory == [kind |-> "dir", text |-> <<>>]
RegularFile(text) == [kind |-> "file", text |-> text]

\* A protected file as it sits in the working tree: it holds a debug line.
ProtectedNode == RegularFile(<<"console.log", "(", NL>>)
\* What the index holds for every path before the run.
StagedText == <<"x", NL>>

\* Lines `git diff --cached <file>` prints.
FileHeader == <<"+", "+", "+", SP, "b/x">>
DiffLineSamples ==
    { FileHeader,
      <<"+", SP, "console.log", "(">>,
      <<"+", "x", ";", "PRINT", SP, "(">>,
      <<"+", "echo", SP, "x", ".", "log", "(">>,
      <<"+", "logger.", "log", "(">>,
      <<"+", "+", "+", "x", ";", "System.out.println">>,
      <<SP, "console.log", "(">>,
      <<"-", "print", "(">> }

DiffOutputs == SeqsUpTo(DiffLineSamples, MaxDiffLines)

\* ------------------------------------------------------------------- state
VARIABLES
    disk,          \* working tree: path -> Missing, Directory or RegularFile(text)
    index,         \* version-control index: path -> text
    stagedSet,     \* paths whose index entry differs from HEAD
    fix,           \* args.fix
    pc,            \* position of the run in __main__
    query,         \* how `git diff --cached --name-only` ended in this run
    staged_files,  \* __main__: staged_files
    i,             \* 1-based position of the for loops in files
    staged_diff,   \* what `git diff --cached` prints for the file the scan loop handled last
    has_logs,      \* check_for_logs: has_logs
    reports,       \* the "Log/print detected in <file>: <line>" messages, in order
    scanned,       \* files whose staged diff check_for_logs has read
    fixed_files,   \* auto_fix_logs: fixed_files
    readded,       \* paths handed to `git add` in this run
    steps,         \* functions entered in this run
    outcome,       \* how the run ended
    exit_code,     \* process exit status (-1 while running)
    orig,          \* working tree and index when the run started
    prev_fixed     \* the run before this one was a fix run that returned normally

vars == <<disk, index, stagedSet, fix, pc, query, staged_files, i, staged_diff,
          has_logs, reports, scanned, fixed_files, readded, steps, outcome,
          exit_code, orig, prev_fixed>>

exists(path) == disk[path].kind # "missing"

\* Path.read_text(encoding='utf-8') raises on a directory and on bytes that
\* are not UTF-8.
read_text_raises(path) ==
    \/ disk[path].kind = "dir"
    \/ disk[path].kind = "file" /\ BAD \in Range(disk[path].text)

\* Working trees a fix run is explored on: app.js takes every content,
\* src/configs.py every one-line content.  A scan run reads no content, only
\* whether a path exists: it is explored with app.js present or absent and
\* src/configs.py present.
FixNodes == {Missing, Directory} \cup {RegularFile(t) : t \in FileTexts}
OneLineNodes == {Missing, Directory} \cup {RegularFile(l \o <<NL>>) : l \in FileLineSamples}
ScanNodes == {Missing, RegularFile(<<SP, "console.log", "(", NL>>)}

Tree(a, c) ==
    [p \in Files |-> IF p = AppJs THEN a ELSE IF p = ConfigsPy THEN c ELSE ProtectedNode]

Init ==
    /\ fix \in BOOLEAN
    /\ \E a \in (IF fix THEN FixNodes ELSE ScanNodes),
          c \in (IF fix THEN OneLineNodes ELSE ScanNodes \ {Missing}) : disk = Tree(a, c)
    /\ index = [p \in Files |-> StagedText]
    /\ stagedSet \in SUBSET Files
    /\ pc = "start"
    /\ query = "none"
    /\ staged_files = <<>>
    /\ i = 1
    /\ staged_diff = <<>>
    /\ has_logs = FALSE
    /\ reports = <<>>
    /\ scanned = {}
    /\ fixed_files = <<>>
    /\ readded = {}
    /\ steps = {}
    /\ outcome = "none"
    /\ exit_code = -1
    /\ orig = [disk |-> disk, index |-> index]
    /\ prev_fixed = FALSE

\* ------------------------------------------------------------ get_staged_files
\* stdout of `git diff --cached --name-only`: every staged path followed by a
\* newline; nothing is printed when git ends with an error.
RECURSIVE NameOnlyFrom(_)
NameOnlyFrom(k) ==
    IF k > Len(Paths) THEN <<>>
    ELSE (IF Paths[k] \in stagedSet THEN Paths[k] \o <<NL>> ELSE <<>>) \o NameOnlyFrom(k + 1)

NameOnly(q) == IF q = "ok" THEN NameOnlyFrom(1) ELSE <<>>

\* str.strip(): blanks and newlines removed at both ends.
RECURSIVE strip(_)
strip(text) ==
    IF text = <<>> THEN <<>>
    ELSE IF Head(text) \in {SP, NL} THEN strip(Tail(text))
    ELSE IF text[Len(text)] \in {SP, NL} THEN strip(SubSeq(text, 1, Len(text) - 1))
    ELSE text

\* Line 39: result.stdout.strip().splitlines()
get_staged_files(stdout) == splitlines(strip(stdout))

\* __main__ line 122.  subprocess.run has no check=True: a non-zero exit of git
\* is not looked at; only a git that cannot be started raises.
GetStagedFiles ==
    /\ pc = "start"
    /\ \E q \in {"ok", "nonzero", "not_started"} :
          /\ query' = q
          /\ IF q = "not_started"
             THEN /\ pc' = "exit"
                  /\ outcome' = "traceback"
                  /\ exit_code' = 1
                  /\ UNCHANGED staged_files
             ELSE /\ staged_files' = get_staged_files(NameOnly(q))
                  /\ pc' = "check_empty"
                  /\ UNCHANGED <<outcome, exit_code>>
    /\ UNCHANGED <<disk, index, stagedSet, fix, i, staged_diff, has_logs, reports,
                   scanned, fixed_files, readded, steps, orig, prev_fixed>>

\* An empty list that prints its message and goes on instead of exiting.
NoStagedFilesNoExit ==
    /\ pc = "check_empty"
    /\ staged_files = <<>>
    /\ steps' = steps \cup {"block_if_protected"}
    /\ pc' = (IF fix THEN "fix" ELSE "scan")
    /\ UNCHANGED <<disk, index, stagedSet, fix, query, staged_files, i, staged_diff,
                   has_logs, reports, scanned, fixed_files, readded, outcome,
                   exit_code, orig, prev_fixed>>

\* __main__ lines 123-125: no staged files, exit 0.
NoStagedFiles ==
    /\ pc = "check_empty"
    /\ staged_files = <<>>
    /\ pc' = "exit"
    /\ outcome' = "nothing_to_check"
    /\ exit_code' = 0
    /\ UNCHANGED <<disk, index, stagedSet, fix, query, staged_files, i, staged_diff,
                   has_logs, reports, scanned, fixed_files, readded, steps, orig,
                   prev_fixed>>

\* __main__ line 128, block_if_protected, and the choice of mode (line 130).
BlockIfProtected ==
    /\ pc = "check_empty"
    /\ staged_files # <<>>
    /\ steps' = steps \cup {"block_if_protected"}
    /\ LET protected == SelectSeq(staged_files, is_protected) IN
       IF protected # <<>>
       THEN /\ pc' = "exit"
            /\ outcome' = "blocked"
            /\ exit_code' = 1
       ELSE /\ pc' = (IF fix THEN "fix" ELSE "scan")
            /\ UNCHANGED <<outcome, exit_code>>
    /\ UNCHANGED <<disk, index, stagedSet, fix, query, staged_files, i, staged_diff,
                   has_logs, reports, scanned, fixed_files, readded, orig, prev_fixed>>

\* ---------------------------------------------------------------- scan mode
\* Line 72: the lines of the diff output that start with '+' and not with '+++'.
is_added_line(line) ==
    /\ Len(line) >= 1 /\ line[1] = "+"
    /\ ~(Len(line) >= 3 /\ line[2] = "+" /\ line[3] = "+")

\* A scan that searches every line of the diff output for a debug call,
\* with no '+' anchor and no added-line filter.
flagged_any_line(line) ==
    \E k \in 1..Len(line) :
       \/ Fold(line[k]) \in {"console.log", "System.out.println"}
       \/ Fold(line[k]) \in {"print", "log"} /\ BlanksThenParen(line, k)
       \/ Fold(line[k]) = "echo" /\ BlankAfter(line, k)

\* Lines 72-75: the diff lines the loop reports.
flagged(line) == is_added_line(line) /\ pattern_search(line)

\* One iteration of the loop of check_for_logs (lines 63-77).  d is what
\* `git diff --cached file` prints; the loop reads it only for a file that
\* is not protected and exists.  The output is taken to be decodable text.
ScanFile ==
    /\ pc = "scan"
    /\ i <= Len(staged_files)
    /\ steps' = steps \cup {"check_for_logs"}
    /\ LET file == staged_files[i] IN
       \E d \in DiffOutputs :
          /\ staged_diff' = d
          /\ IF is_protected(file) \/ ~exists(file)
             THEN UNCHANGED <<has_logs, reports, scanned>>
             ELSE LET hits == SelectSeq(d, flagged) IN
                  /\ reports' = reports \o [k \in 1..Len(hits) |-> <<file, hits[k]>>]
                  /\ has_logs' = (has_logs \/ hits # <<>>)
                  /\ scanned' = scanned \cup {file}
    /\ i' = i + 1
    /\ UNCHANGED <<disk, index, stagedSet, fix, pc, query, staged_files, fixed_files,
                   readded, outcome, exit_code, orig, prev_fixed>>

\* check_for_logs returns has_logs; __main__ lines 134-138.
ScanReturn ==
    /\ pc = "scan"
    /\ i > Len(staged_files)
    /\ steps' = steps \cup {"check_for_logs"}
    /\ pc' = "exit"
    /\ outcome' = (IF has_logs THEN "rejected" ELSE "clean")
    /\ exit_code' = (IF has_logs THEN 1 ELSE 0)
    /\ UNCHANGED <<disk, index, stagedSet, fix, query, staged_files, i, staged_diff,
                   has_logs, reports, scanned, fixed_files, readded, orig, prev_fixed>>

\* ----------------------------------------------------------------- fix mode
\* A filter that stops dropping after the first matching line.
RECURSIVE new_lines_first_only(_)
new_lines_first_only(original_lines) ==
    IF original_lines = <<>> THEN <<>>
    ELSE IF fix_match(Head(original_lines)) THEN Tail(original_lines)
    ELSE <<Head(original_lines)>> \o new_lines_first_only(Tail(original_lines))

\* Lines 96-104: the lines that are kept.
new_lines(original_lines) == SelectSeq(original_lines, LAMBDA line : ~fix_match(line))

\* Line 107: what write_text puts on disk.
written_text(lines) == join(lines) \o <<NL>>

\* One iteration of the loop of auto_fix_logs (lines 87-108).  An exception
\* of read_text is not caught: the interpreter prints the traceback and the
\* process ends with status 1.
FixFile ==
    /\ pc = "fix"
    /\ i <= Len(staged_files)
    /\ steps' = steps \cup {"auto_fix_logs"}
    /\ LET file == staged_files[i] IN
       IF is_protected(file) \/ ~exists(file)
       THEN /\ i' = i + 1
            /\ UNCHANGED <<disk, fixed_files, pc, outcome, exit_code>>
       ELSE IF read_text_raises(file)
       THEN /\ pc' = "exit"
            /\ outcome' = "traceback"
            /\ exit_code' = 1
            /\ UNCHANGED <<disk, fixed_files, i>>
       ELSE LET original_lines == splitlines(disk[file].text)
                kept == new_lines(original_lines)
                modified == \E k \in 1..Len(original_lines) : fix_match(original_lines[k])
            IN /\ disk' = (IF modified
                           THEN [disk EXCEPT ![file] = RegularFile(written_text(kept))]
                           ELSE disk)
               /\ fixed_files' = (IF modified THEN Append(fixed_files, file) ELSE fixed_files)
               /\ i' = i + 1
               /\ UNCHANGED <<pc, outcome, exit_code>>
    /\ UNCHANGED <<index, stagedSet, fix, query, staged_files, staged_diff, has_logs,
                   reports, scanned, readded, orig, prev_fixed>>

\* Lines 110-114 and __main__ line 132: `git add` of the fixed files, exit 0.
\* `git add` copies the working-tree content into the index; a path whose
\* index entry now equals HEAD leaves the staged set.  The return code of
\* `git add` is not read (line 111); the command is taken to succeed.
Restage ==
    /\ pc = "fix"
    /\ i > Len(staged_files)
    /\ IF fixed_files # <<>>
       THEN /\ steps' = steps \cup {"auto_fix_logs", "git_add"}
            /\ readded' = Range(fixed_files)
            /\ index' = [p \in Files |->
                            IF p \in Range(fixed_files) THEN disk[p].text ELSE index[p]]
            /\ \E back \in SUBSET Range(fixed_files) : stagedSet' = stagedSet \ back
       ELSE /\ steps' = steps \cup {"auto_fix_logs"}
            /\ UNCHANGED <<readded, index, stagedSet>>
    /\ pc' = "exit"
    /\ outcome' = "fixed"
    /\ exit_code' = 0
    /\ UNCHANGED <<disk, fix, query, staged_files, i, staged_diff, has_logs, reports,
                   scanned, fixed_files, orig, prev_fixed>>

\* The hook runs again (next commit attempt) in the same mode, on the working
\* tree and index the last run left.
NewRun ==
    /\ pc = "exit"
    /\ pc' = "start"
    /\ query' = "none"
    /\ staged_files' = <<>>
    /\ i' = 1
    /\ staged_diff' = <<>>
    /\ has_logs' = FALSE
    /\ reports' = <<>>
    /\ scanned' = {}
    /\ fixed_files' = <<>>
    /\ readded' = {}
    /\ steps' = {}
    /\ outcome' = "none"
    /\ exit_code' = -1
    /\ orig' = [disk |-> disk, index |-> index]
    /\ prev_fixed' = (outcome = "fixed")
    /\ UNCHANGED <<disk, index, stagedSet, fix>>

Next ==
    \/ GetStagedFiles
    \/ NoStagedFiles
    \/ BlockIfProtected
    \/ ScanFile
    \/ ScanReturn
    \/ FixFile
    \/ Restage
    \/ NewRun

Spec == Init /\ [][Next]_vars

\* ================================================================== claims
\* A path under 'src/config/' or 'src/env/'.
UnderProtectedPrefix(file) ==
    \/ startswith(file, <<"src", "/", "config", "/">>)
    \/ startswith(file, <<"src", "/", "env", "/">>)

ProtectedStaged == \E k \in 1..Len(staged_files) : UnderProtectedPrefix(staged_files[k])

\* The run has not scanned, reported, rewritten or re-added anything.
NothingDone ==
    /\ scanned = {}
    /\ reports = <<>>
    /\ fixed_files = <<>>
    /\ readded = {}
    /\ disk = orig.disk
    /\ index = orig.index
    /\ steps \cap {"check_for_logs", "auto_fix_logs", "git_add"} = {}

\* A debug call in a piece of text: console.log, print(, System.out.println,
\* echo, or a bare log( that no 'logger.' precedes.
DebugStatement(text) ==
    \E k \in 1..Len(text) :
       \/ Fold(text[k]) = "console.log"
       \/ Fold(text[k]) = "System.out.println"
       \/ Fold(text[k]) = "print" /\ Boundary(text, k) /\ BlanksThenParen(text, k)
       \/ Fold(text[k]) = "echo" /\ Boundary(text, k) /\ BlankAfter(text, k)
       \/ /\ Fold(text[k]) = "log"
          /\ Boundary(text, k)
          /\ (k > 1 => Fold(text[k - 1]) # "logger.")
          /\ BlanksThenParen(text, k)

\* An added line of a staged diff: its first character is '+' and it is not the
\* '+++ b/<path>' file header.
AddedLine(line) == Len(line) >= 1 /\ line[1] = "+" /\ line # FileHeader
AddedDebugLine(line) == AddedLine(line) /\ DebugStatement(Tail(line))

Reported(file, line) == \E k \in 1..Len(reports) : reports[k] = <<file, line>>

\* The scan loop has handled at least one file; LastFile is the one it handled last.
ScanUnderWay == ~fix /\ pc \in {"scan", "exit"} /\ i > 1 /\ "check_for_logs" \in steps
LastFile == staged_files[i - 1]

\* C1: whenever the staged-file list holds a path under a protected prefix, the
\* run ends with exit code 1 straight after the protected-path check: no file
\* was scanned or reported, none rewritten, nothing re-added, in either mode.
C1_ProtectedBlocksBeforeMode ==
    (pc # "start" /\ ProtectedStaged) =>
        /\ pc \in {"check_empty", "exit"}
        /\ pc = "exit" => (exit_code = 1 /\ outcome = "blocked")
        /\ NothingDone

\* C1 witness: a fix run ended blocked by src/env/prod.env while app.js, staged
\* too, holds a line the fix pass would remove.
C1_Witness ==
    /\ pc = "exit" /\ fix /\ outcome = "blocked"
    /\ staged_files = <<AppJs, ProdEnv>>
    /\ disk[AppJs].kind = "file"
    /\ \E k \in 1..Len(splitlines(disk[AppJs].text)) : fix_match(splitlines(disk[AppJs].text)[k])

\* C2: when the query that lists the staged files fails, the run ends with a
\* non-zero exit and never through the nothing-to-check path.
C2_QueryFailurePropagates ==
    (pc = "exit" /\ query \in {"nonzero", "not_started"}) =>
        (exit_code # 0 /\ outcome # "nothing_to_check")

\* C3: when the staged-file list is empty the run reports nothing-to-check and
\* exits 0; the protected-path check, the scan, the fix pass and the re-stage
\* never run and no file or index entry changes, in either mode.
C3_EmptyExitsZero ==
    (query \in {"ok", "nonzero"} /\ staged_files = <<>>) =>
        /\ pc \in {"check_empty", "exit"}
        /\ pc = "exit" => (exit_code = 0 /\ outcome = "nothing_to_check")
        /\ steps = {}
        /\ NothingDone

\* C3 witness: a fix run on a tree with a removable line in app.js ended on
\* the nothing-to-check path.
C3_Witness ==
    /\ pc = "exit" /\ fix /\ query = "ok" /\ staged_files = <<>>
    /\ outcome = "nothing_to_check"
    /\ disk[AppJs] = RegularFile(<<SP, "console.log", "(", NL>>)

\* C4: in scan mode with no protected file staged, every added line of the
\* staged diff of an unprotected staged file that holds a debug call is
\* reported with its file and the run exits 1, whatever follows the leading
\* '+' and whether or not the file exists in the working tree.
C4_AddedDebugLineReported ==
    (ScanUnderWay /\ ~ProtectedStaged) =>
        \A k \in 1..Len(staged_diff) :
            AddedDebugLine(staged_diff[k]) =>
                /\ Reported(LastFile, staged_diff[k])
                /\ pc = "exit" => exit_code = 1

\* C5: scan mode is not fail-fast: at the end of a scan every unprotected
\* staged file that exists was scanned, every matching added line was
\* reported, and the exit code is 1 exactly when a match occurred.
C5_ScanNotFailFast ==
    (ScanUnderWay /\ ~ProtectedStaged) =>
        /\ pc = "exit" =>
              /\ \A f \in Range(staged_files) : exists(f) => f \in scanned
              /\ exit_code = 1 <=> reports # <<>>
        /\ exists(LastFile) =>
              \A k \in 1..Len(staged_diff) :
                  (AddedLine(staged_diff[k]) /\ pattern_search(staged_diff[k])) =>
                      /\ Reported(LastFile, staged_diff[k])
                      /\ pc = "exit" => exit_code = 1

\* C6: with a non-empty staged list that holds no protected path, a fix run
\* always ends with exit code 0, whatever the staged paths are, and never runs
\* the scan.
C6_FixAlwaysExitsZero ==
    (fix /\ pc = "exit" /\ staged_files # <<>> /\ ~ProtectedStaged) =>
        (exit_code = 0 /\ "check_for_logs" \notin steps)

\* C7: when a fix run ends, every file it rewrote has been re-added and its
\* index content equals its content on disk; files it did not rewrite are not
\* re-added, and with no file rewritten `git add` is not run.
C7_RewrittenFilesRestaged ==
    (fix /\ pc = "exit") =>
        /\ \A f \in Files :
              IF disk[f] # orig.disk[f]
              THEN f \in readded /\ index[f] = disk[f].text
              ELSE f \notin readded /\ index[f] = orig.index[f]
        /\ disk = orig.disk => "git_add" \notin steps

\* C8: fix mode is idempotent: after a completed fix run no line of a
\* processed file matches a fix pattern, and the fix run that follows it
\* rewrites no file and re-adds nothing.
C8_FixIdempotent ==
    /\ (pc = "exit" /\ outcome = "fixed") =>
          \A f \in Range(staged_files) :
              disk[f].kind = "file" =>
                  \A k \in 1..Len(splitlines(disk[f].text)) :
                      ~fix_match(splitlines(disk[f].text)[k])
    /\ (fix /\ prev_fixed) =>
          /\ fixed_files = <<>>
          /\ readded = {}
          /\ "git_add" \notin steps
          /\ disk = orig.disk
          /\ index = orig.index

\* C8 witness: a second fix run has completed over app.js, which the first
\* fix run rewrote and re-added (its index entry is no longer the initial one).
C8_Witness ==
    /\ pc = "exit" /\ fix /\ prev_fixed /\ outcome = "fixed"
    /\ AppJs \in Range(staged_files)
    /\ index[AppJs] # StagedText
    /\ index[AppJs] = disk[AppJs].text

C10_FixRewritesExactly ==
    (fix /\ pc = "exit" /\ staged_files # <<>> /\ ~ProtectedStaged) =>
        \A f \in Range(staged_files) :
            orig.disk[f].kind = "file" =>
                LET lines == splitlines(orig.disk[f].text)
                    kept == SelectSeq(lines, LAMBDA l : ~fix_match(l))
                IN  IF \E k \in 1..Len(lines) : fix_match(lines[k])
                    THEN disk[f] = RegularFile(join(kept) \o <<NL>>)
                    ELSE disk[f] = orig.disk[f]

====
